---- MODULE Spec2Model ----
\* A model of src/python/search.py: the parking search (geometry, partition
\* generator, Group Search, Location Solver, Ranking Aggregator).
EXTENDS Integers, Sequences, FiniteSets, TLC

\* ---------------------------------------------------------------- bounds
\* whole requests: listings in the catalog, vehicle groups, vehicles per group
MaxListings == 3
MaxGroups == 2
MaxQty == 3
\* listing prices are 0..MaxPrice
MaxPrice == 2
\* Group Search called on its own: listings in the pool, vehicles to place
MaxPool == 3
MaxCars == 3
\* find_partitions consumed on its own: total and number of parts
MaxTotal == 7

LocationIds == {"A", "B"}
CarLengths == {10, 20}
\* (width, length) of the listings drawn as inputs
Dims == {<<10, 10>>, <<20, 10>>, <<30, 20>>}
\* the two of them the catalogs of whole requests are built from
SolverDims == {<<10, 10>>, <<20, 10>>}

\* float('inf'): larger than every sum of listing prices the bounds allow
Infinity == (MaxListings + MaxPool) * (MaxPrice + 1) + 1

None == <<>>
Some(x) == <<x>>

\* ------------------------------------------------------- pure functions
endToEnd(carLength, numCars) ==
  [width |-> carLength * numCars, length |-> numCars * 10]

sideBySide(carLength, numCars) ==
  [width |-> 10 * numCars, length |-> carLength]

Fits(listing, carLength, numCars) ==
  LET e2e == endToEnd(carLength, numCars)
      sbs == sideBySide(carLength, numCars)
  IN  \/ (listing.length >= e2e.length /\ listing.width >= e2e.width)
      \/ (listing.length >= sbs.length /\ listing.width >= sbs.width)

\* the first compatible listing of the scan, or None
find_cheapest_spot_optimized(numCars, carLength, available_listings) ==
  LET hits == {i \in 1..Len(available_listings) :
                 Fits(available_listings[i], carLength, numCars)}
  IN  IF hits = {} THEN None
      ELSE Some(available_listings[CHOOSE i \in hits : \A j \in hits : i <= j])

\* list.remove(x): drops the first element equal to x
ListRemove(s, x) ==
  LET at == {i \in 1..Len(s) : s[i] = x}
      k == CHOOSE i \in at : \A j \in at : i <= j
  IN  IF at = {} THEN s
      ELSE [i \in 1..(Len(s) - 1) |-> IF i < k THEN s[i] ELSE s[i + 1]]

RECURSIVE find_partitions(_, _, _)
RECURSIVE PartitionsFrom(_, _, _, _)
\* the for loop of find_partitions, from first part i up to hi
PartitionsFrom(total_cars, num_sets, i, hi) ==
  IF i > hi THEN <<>>
  ELSE LET rest == find_partitions(total_cars - i, num_sets - 1, i)
       IN  [j \in 1..Len(rest) |-> <<i>> \o rest[j]]
           \o PartitionsFrom(total_cars, num_sets, i + 1, hi)

\* a bug: the last first part, total_cars // num_sets, is left out
find_partitions_short(total_cars, num_sets, start) ==
  IF num_sets = 1
  THEN IF total_cars >= start THEN << <<total_cars>> >> ELSE <<>>
  ELSE PartitionsFrom(total_cars, num_sets, start, (total_cars \div num_sets) - 1)

\* the tuples find_partitions yields, in the order it yields them
find_partitions(total_cars, num_sets, start) ==
  IF num_sets = 1
  THEN IF total_cars >= start THEN << <<total_cars>> >> ELSE <<>>
  ELSE PartitionsFrom(total_cars, num_sets, start, total_cars \div num_sets)

\* for num_groups in range(1, numCars + 1): for partition in find_partitions(...)
RECURSIVE AllPartitions(_, _)
AllPartitions(numCars_, num_groups) ==
  IF num_groups > numCars_ THEN <<>>
  ELSE find_partitions(numCars_, num_groups, 1) \o AllPartitions(numCars_, num_groups + 1)

\* set(permutations(partition)): the distinct rearrangements of the tuple
DistinctPermutations(partition) ==
  LET n == Len(partition)
  IN  {[i \in 1..n |-> partition[f[i]]] : f \in Permutations(1..n)}

\* every order in which a set can be iterated
Enumerations(S) ==
  {e \in [1..Cardinality(S) -> S] : \A i, j \in 1..Cardinality(S) : i # j => e[i] # e[j]}

\* The iteration order of set(permutations(partition)) is implementation
\* defined, and the same for the same tuple throughout one process: the first
\* iteration of a tuple's set chooses it, later ones find it in memo.
SetIteration(partition, memo) ==
  IF partition \in DOMAIN memo THEN {memo[partition]}
  ELSE Enumerations(DistinctPermutations(partition))

\* sorted(s, key=...), list.sort(key=...): stable, ascending; key[i] is the key of s[i]
SortedBy(s, key) ==
  LET n == Len(s)
      rank(i) == 1 + Cardinality({j \in 1..n :
                   \/ key[j] < key[i]
                   \/ (key[j] = key[i] /\ j < i)})
  IN  [r \in 1..n |-> s[CHOOSE i \in 1..n : rank(i) = r]]

\* sorted(s, key=..., reverse=True): descending, equal keys keep their order
SortedByReverse(s, key) ==
  LET n == Len(s)
      rank(i) == 1 + Cardinality({j \in 1..n :
                   \/ key[j] > key[i]
                   \/ (key[j] = key[i] /\ j < i)})
  IN  [r \in 1..n |-> s[CHOOSE i \in 1..n : rank(i) = r]]

\* key=lambda x: x['price_in_cents']
PriceKeys(s) == [i \in 1..Len(s) |-> s[i].price_in_cents]
\* key=lambda x: x["total_price_in_cents"]
TotalPriceKeys(s) == [i \in 1..Len(s) |-> s[i].total_price_in_cents]
\* key=lambda v: v['quantity'] * v['length']
DemandKeys(s) == [i \in 1..Len(s) |-> s[i].quantity * s[i].length]

\* a bug: every location is given the whole catalog
SelectSeqAny(s, loc) == s

\* lines 102-103: the listings of one location, in catalog order
SelectSeqLoc(s, loc) ==
  LET Test(x) == x.location_id = loc IN SelectSeq(s, Test)

\* the location ids of a listing sequence, in order of first occurrence
RECURSIVE EncounterOrder(_)
EncounterOrder(listings) ==
  IF listings = <<>> THEN <<>>
  ELSE LET front == EncounterOrder(SubSeq(listings, 1, Len(listings) - 1))
           loc == listings[Len(listings)].location_id
       IN  IF \E i \in 1..Len(front) : front[i] = loc THEN front
           ELSE Append(front, loc)

\* the insertion-ordered dict, as a sequence of (location_id, listings) items
group_listings_by_location(listings) ==
  LET locs == EncounterOrder(listings)
  IN  [k \in 1..Len(locs) |->
         [location_id |-> locs[k],
          listings |-> SortedBy(SelectSeqLoc(listings, locs[k]),
                               PriceKeys(SelectSeqLoc(listings, locs[k])))]]

\* ---------------------------------------------------------------- state
VARIABLES
  vehicle_request, all_listings,        \* the caller's two inputs
  pc, call, first_result,               \* position; which call; the first call's output
  grouped_locations, loc_i, overall_results,
  available_listings_at_loc, used_listings_for_loc, current_total_price,
  location_is_possible, sorted_request, veh_i,
  numCars, carLength, listings_at_location, price_to_beat,
  cheapest_price_for_this_loc, best_arrangement_for_this_loc,
  partitions, part_i, orderings, ord_i, g_i,
  temp_listings, used_listings, current_price, is_possible,
  set_order,                            \* iteration order of each set iterated so far
  explored,                             \* history: prices of the orderings completed feasible
  pruned,                               \* history: how many orderings the price test dropped
  search_log,                           \* history: one record per Group Search return
  gen_total, gen_sets, gen_yielded      \* a find_partitions generator being consumed

inputVars == <<vehicle_request, all_listings>>
callVars == <<call, first_result>>
aggregatorVars == <<grouped_locations, loc_i, overall_results>>
locationVars == <<available_listings_at_loc, used_listings_for_loc, current_total_price,
                  location_is_possible, sorted_request, veh_i>>
paramVars == <<numCars, carLength, listings_at_location, price_to_beat>>
bestVars == <<cheapest_price_for_this_loc, best_arrangement_for_this_loc>>
loopVars == <<partitions, part_i, orderings, ord_i, set_order>>
branchVars == <<g_i, temp_listings, used_listings, current_price, is_possible>>
genVars == <<gen_total, gen_sets, gen_yielded>>
vars == <<inputVars, pc, callVars, aggregatorVars, locationVars, paramVars, bestVars,
          loopVars, branchVars, explored, pruned, search_log, genVars>>

\* ---------------------------------------------------------------- inputs
Listing(i, loc, dim, price) ==
  [id |-> i, location_id |-> loc, width |-> dim[1], length |-> dim[2],
   price_in_cents |-> price]

\* Catalogs of up to maxLen listings with ids 1..n. Location ids are only
\* compared for equality: the first listing's is named "A".
CatalogInputs(maxLen) ==
  UNION {{[i \in 1..n |-> Listing(i, f[i][1], f[i][2], f[i][3])] :
            f \in {g \in [1..n -> LocationIds \X SolverDims \X (0..MaxPrice)] :
                     n = 0 \/ g[1][1] = "A"}} : n \in 0..maxLen}

RequestInputs(maxLen) ==
  UNION {[1..n -> [length : CarLengths, quantity : 1..MaxQty]] : n \in 0..maxLen}

EmptyFunction == [x \in {} |-> x]

SolverIdle ==
  /\ grouped_locations = <<>> /\ loc_i = 1 /\ overall_results = <<>>
  /\ available_listings_at_loc = <<>> /\ used_listings_for_loc = <<>>
  /\ current_total_price = 0 /\ location_is_possible = TRUE
  /\ sorted_request = <<>> /\ veh_i = 1
  /\ call = 1 /\ first_result = None /\ search_log = <<>>

SearchIdle ==
  /\ cheapest_price_for_this_loc = 0 /\ best_arrangement_for_this_loc = None
  /\ partitions = <<>> /\ part_i = 1 /\ orderings = <<>> /\ ord_i = 1 /\ g_i = 1
  /\ temp_listings = <<>> /\ used_listings = <<>> /\ current_price = 0
  /\ is_possible = TRUE /\ set_order = EmptyFunction /\ explored = {} /\ pruned = 0

GenIdle == gen_total = 1 /\ gen_sets = 1 /\ gen_yielded = <<>>

\* the state at the call of find_best_solution_with_grouping
Init ==
  /\ vehicle_request \in RequestInputs(MaxGroups)
  /\ all_listings \in CatalogInputs(MaxListings)
  /\ pc = "call"
  /\ numCars = 1 /\ carLength = 10 /\ listings_at_location = <<>> /\ price_to_beat = Infinity
  /\ SolverIdle /\ SearchIdle /\ GenIdle

\* ------------------------------------------------------------ Group Search
\* a bug: one working pool shared by all the orderings
BranchPoolShared(input_pool, previous_pool) == previous_pool

\* line 69: every ordering works on a copy of the pool passed in
BranchPool(input_pool, previous_pool) == input_pool

\* a bug: an ordering one cent below the best price is dropped too
ShouldPruneEager(price, best_price) == price + 1 >= best_price

\* line 75: the price-only pruning test
ShouldPrune(price, best_price) == price >= best_price

\* a bug: every completed ordering replaces the best one
ImprovesAlways(possible, price, best_price) == possible

\* line 89: a completed ordering replaces the best one
Improves(possible, price, best_price) == possible /\ price < best_price

\* lines 58-67: entry of find_cheapest_for_location, up to the first set iterated
SearchEntry(n, len, pool, ptb) ==
  /\ numCars' = n /\ carLength' = len /\ listings_at_location' = pool /\ price_to_beat' = ptb
  /\ cheapest_price_for_this_loc' = ptb
  /\ best_arrangement_for_this_loc' = None
  /\ partitions' = AllPartitions(n, 1)
  /\ part_i' = 1 /\ ord_i' = 1
  /\ explored' = {} /\ pruned' = 0
  /\ IF AllPartitions(n, 1) = <<>>
     THEN orderings' = <<>> /\ set_order' = set_order /\ pc' = "search_return"
     ELSE /\ \E o \in SetIteration(AllPartitions(n, 1)[1], set_order) :
               /\ orderings' = o
               /\ set_order' = (AllPartitions(n, 1)[1] :> o) @@ set_order
          /\ pc' = "ordering"
  /\ UNCHANGED branchVars

\* lines 67-72: the next ordering starts
StartOrdering ==
  /\ pc = "ordering"
  /\ temp_listings' = BranchPool(listings_at_location, temp_listings)
  /\ used_listings' = <<>>
  /\ current_price' = 0
  /\ is_possible' = TRUE
  /\ g_i' = 1
  /\ pc' = "group"
  /\ UNCHANGED <<inputVars, callVars, aggregatorVars, locationVars, paramVars, bestVars,
                 loopVars, explored, pruned, search_log, genVars>>

p_ordering == orderings[ord_i]

\* lines 75-77: the running price has reached the best price, the ordering is dropped
PruneOrdering ==
  /\ pc = "group"
  /\ ShouldPrune(current_price, cheapest_price_for_this_loc)
  /\ is_possible' = FALSE
  /\ pruned' = pruned + 1
  /\ pc' = "ordering_end"
  /\ UNCHANGED <<inputVars, callVars, aggregatorVars, locationVars, paramVars, bestVars,
                 loopVars, g_i, temp_listings, used_listings, current_price,
                 explored, search_log, genVars>>

\* lines 79-84: the sub-group takes the cheapest compatible listing left
PlaceGroup ==
  /\ pc = "group"
  /\ ~ShouldPrune(current_price, cheapest_price_for_this_loc)
  /\ LET spot == find_cheapest_spot_optimized(p_ordering[g_i], carLength, temp_listings)
     IN  /\ spot # None
         /\ current_price' = current_price + spot[1].price_in_cents
         /\ used_listings' = Append(used_listings, spot[1])
         /\ temp_listings' = ListRemove(temp_listings, spot[1])
  /\ g_i' = g_i + 1
  /\ pc' = IF g_i = Len(p_ordering) THEN "ordering_end" ELSE "group"
  /\ UNCHANGED <<inputVars, callVars, aggregatorVars, locationVars, paramVars, bestVars,
                 loopVars, is_possible, explored, pruned, search_log, genVars>>

\* lines 85-87: no listing left fits the sub-group
NoSpot ==
  /\ pc = "group"
  /\ ~ShouldPrune(current_price, cheapest_price_for_this_loc)
  /\ find_cheapest_spot_optimized(p_ordering[g_i], carLength, temp_listings) = None
  /\ is_possible' = FALSE
  /\ pc' = "ordering_end"
  /\ UNCHANGED <<inputVars, callVars, aggregatorVars, locationVars, paramVars, bestVars,
                 loopVars, g_i, temp_listings, used_listings, current_price,
                 explored, pruned, search_log, genVars>>

\* lines 89-95, then the three for loops advance (lines 65-67) or the search ends
FinishOrdering ==
  /\ pc = "ordering_end"
  /\ IF Improves(is_possible, current_price, cheapest_price_for_this_loc)
     THEN /\ cheapest_price_for_this_loc' = current_price
          /\ best_arrangement_for_this_loc' =
               Some([split_of_cars |-> p_ordering,
                     listings_used |-> used_listings,
                     total_price_in_cents |-> current_price])
     ELSE UNCHANGED bestVars
  /\ explored' = IF is_possible THEN explored \cup {current_price} ELSE explored
  /\ pruned' = pruned
  /\ IF ord_i < Len(orderings)
     THEN /\ ord_i' = ord_i + 1
          /\ pc' = "ordering"
          /\ UNCHANGED <<partitions, part_i, orderings, set_order>>
     ELSE IF part_i < Len(partitions)
     THEN /\ part_i' = part_i + 1
          /\ \E o \in SetIteration(partitions[part_i + 1], set_order) :
               /\ orderings' = o
               /\ set_order' = (partitions[part_i + 1] :> o) @@ set_order
          /\ ord_i' = 1
          /\ pc' = "ordering"
          /\ UNCHANGED partitions
     ELSE /\ pc' = "search_return"
          /\ UNCHANGED loopVars
  /\ UNCHANGED <<inputVars, callVars, aggregatorVars, locationVars, paramVars,
                 branchVars, search_log, genVars>>

\* ---------------------------------------- Location Solver and Ranking Aggregator
\* a bug: a result list that outlives the call
NewResultsKept(previous_results) == previous_results

\* line 114: the result list of a call
NewResults(previous_results) == <<>>

\* a bug: the arrangement's listings stay in the location's pool
RemoveUsedNone(available, spots) == available

\* lines 139-141: the arrangement's listings leave the location's pool
RECURSIVE RemoveUsed(_, _)
RemoveUsed(available, spots) ==
  IF spots = <<>> THEN available
  ELSE RemoveUsed(ListRemove(available, Head(spots)), Tail(spots))

Result(location_id, total, used) ==
  [location_id |-> location_id,
   total_price_in_cents |-> total,
   listing_ids |-> [i \in 1..Len(used) |-> used[i].id]]

\* a bug: a location that rented nothing adds no result
CollectResultUsed(results, possible, location_id, total, used) ==
  IF possible /\ used # <<>> THEN Append(results, Result(location_id, total, used))
  ELSE results

\* a bug: an infeasible location adds its partial result
CollectResultAlways(results, possible, location_id, total, used) ==
  Append(results, Result(location_id, total, used))

\* lines 146-151: a feasible location adds its result
CollectResult(results, possible, location_id, total, used) ==
  IF possible THEN Append(results, Result(location_id, total, used))
  ELSE results

\* a bug: ascending, but equal totals come out in reverse order
SortResultsUnstable(results) ==
  LET n == Len(results)
      descending == SortedByReverse(results, TotalPriceKeys(results))
  IN  [i \in 1..n |-> descending[n + 1 - i]]

\* line 153
SortResults(results) == SortedBy(results, TotalPriceKeys(results))

\* lines 113-114
GroupListings ==
  /\ pc = "call"
  /\ grouped_locations' = group_listings_by_location(all_listings)
  /\ overall_results' = NewResults(overall_results)
  /\ loc_i' = 1
  /\ search_log' = <<>>
  /\ pc' = "location"
  /\ UNCHANGED <<inputVars, callVars, locationVars, paramVars, bestVars, loopVars,
                 branchVars, explored, pruned, genVars>>

\* lines 116-123: the next location starts with a copy of its listings
StartLocation ==
  /\ pc = "location"
  /\ loc_i <= Len(grouped_locations)
  /\ available_listings_at_loc' = grouped_locations[loc_i].listings
  /\ used_listings_for_loc' = <<>>
  /\ current_total_price' = 0
  /\ location_is_possible' = TRUE
  /\ sorted_request' = SortedByReverse(vehicle_request, DemandKeys(vehicle_request))
  /\ veh_i' = 1
  /\ pc' = "vehicle"
  /\ UNCHANGED <<inputVars, callVars, aggregatorVars, paramVars, bestVars, loopVars,
                 branchVars, explored, pruned, search_log, genVars>>

\* lines 125-134: Group Search is called for the next vehicle group
CallSearch ==
  /\ pc = "vehicle"
  /\ location_is_possible
  /\ veh_i <= Len(sorted_request)
  /\ SearchEntry(sorted_request[veh_i].quantity, sorted_request[veh_i].length,
                 available_listings_at_loc, Infinity)
  /\ UNCHANGED <<inputVars, callVars, aggregatorVars, locationVars, search_log, genVars>>

LogEntry(found) ==
  [location_id |-> grouped_locations[loc_i].location_id,
   group |-> sorted_request[veh_i],
   pool |-> available_listings_at_loc,
   found |-> found]

\* lines 136-141: the arrangement is added to the location's total
TakeArrangement ==
  /\ pc = "search_return"
  /\ best_arrangement_for_this_loc # None
  /\ LET arrangement == best_arrangement_for_this_loc[1]
     IN  /\ current_total_price' = current_total_price + arrangement.total_price_in_cents
         /\ used_listings_for_loc' = used_listings_for_loc \o arrangement.listings_used
         /\ available_listings_at_loc' =
              RemoveUsed(available_listings_at_loc, arrangement.listings_used)
  /\ veh_i' = veh_i + 1
  /\ search_log' = Append(search_log, LogEntry(TRUE))
  /\ pc' = "vehicle"
  /\ UNCHANGED <<inputVars, callVars, aggregatorVars, location_is_possible, sorted_request,
                 paramVars, bestVars, loopVars, branchVars, explored, pruned, genVars>>

\* lines 142-144: no arrangement, the location is given up
NoArrangement ==
  /\ pc = "search_return"
  /\ best_arrangement_for_this_loc = None
  /\ location_is_possible' = FALSE
  /\ search_log' = Append(search_log, LogEntry(FALSE))
  /\ pc' = "vehicle"
  /\ UNCHANGED <<inputVars, callVars, aggregatorVars, available_listings_at_loc,
                 used_listings_for_loc, current_total_price, sorted_request, veh_i,
                 paramVars, bestVars, loopVars, branchVars, explored, pruned, genVars>>

\* lines 146-151: the loop over the vehicle groups is over
FinishLocation ==
  /\ pc = "vehicle"
  /\ (~location_is_possible \/ veh_i > Len(sorted_request))
  /\ overall_results' =
       CollectResult(overall_results, location_is_possible,
                     grouped_locations[loc_i].location_id,
                     current_total_price, used_listings_for_loc)
  /\ loc_i' = loc_i + 1
  /\ pc' = "location"
  /\ UNCHANGED <<inputVars, callVars, grouped_locations, locationVars, paramVars, bestVars,
                 loopVars, branchVars, explored, pruned, search_log, genVars>>

\* lines 153-154: every location is done, the results are sorted and returned
ReturnResults ==
  /\ pc = "location"
  /\ loc_i > Len(grouped_locations)
  /\ overall_results' = SortResults(overall_results)
  /\ pc' = "done"
  /\ UNCHANGED <<inputVars, callVars, grouped_locations, loc_i, locationVars, paramVars,
                 bestVars, loopVars, branchVars, explored, pruned, search_log, genVars>>

\* the caller calls again with the same two objects
SecondCall ==
  /\ pc = "done"
  /\ call = 1
  /\ first_result' = Some(overall_results)
  /\ call' = 2
  /\ pc' = "call"
  /\ UNCHANGED <<inputVars, aggregatorVars, locationVars, paramVars, bestVars, loopVars,
                 branchVars, explored, pruned, search_log, genVars>>

Next ==
  \/ GroupListings \/ StartLocation \/ CallSearch
  \/ StartOrdering \/ PruneOrdering \/ PlaceGroup \/ NoSpot \/ FinishOrdering
  \/ TakeArrangement \/ NoArrangement \/ FinishLocation \/ ReturnResults
  \/ SecondCall

Spec == Init /\ [][Next]_vars

\* ------------------------------------- Group Search called on its own
\* one location's pools as group_listings_by_location leaves them: price-ascending
SortedPools(maxLen) ==
  UNION {{[i \in 1..n |-> Listing(i, "A", d[i], p[i])] :
            d \in [1..n -> Dims],
            p \in {q \in [1..n -> 0..MaxPrice] : \A i \in 1..(n - 1) : q[i] <= q[i + 1]}} :
         n \in 0..maxLen}

InitSearch ==
  /\ vehicle_request = <<>> /\ all_listings = <<>>
  /\ pc = "search_call"
  /\ numCars \in 1..MaxCars
  /\ carLength \in CarLengths
  /\ listings_at_location \in SortedPools(MaxPool)
  /\ price_to_beat \in {MaxPrice, Infinity}
  /\ SolverIdle /\ SearchIdle /\ GenIdle

EnterSearch ==
  /\ pc = "search_call"
  /\ SearchEntry(numCars, carLength, listings_at_location, price_to_beat)
  /\ UNCHANGED <<inputVars, callVars, aggregatorVars, locationVars, search_log, genVars>>

NextSearch ==
  \/ EnterSearch
  \/ StartOrdering \/ PruneOrdering \/ PlaceGroup \/ NoSpot \/ FinishOrdering

SpecSearch == InitSearch /\ [][NextSearch]_vars

\* ------------------------------------- find_partitions consumed on its own
InitPartitions ==
  /\ vehicle_request = <<>> /\ all_listings = <<>>
  /\ pc = "generator"
  /\ numCars = 1 /\ carLength = 10 /\ listings_at_location = <<>> /\ price_to_beat = Infinity
  /\ SolverIdle /\ SearchIdle
  /\ gen_total \in 1..MaxTotal
  /\ gen_sets \in 1..MaxTotal
  /\ gen_yielded = <<>>

\* the consumer takes the generator's next tuple
NextTuple ==
  /\ pc = "generator"
  /\ Len(gen_yielded) < Len(find_partitions(gen_total, gen_sets, 1))
  /\ gen_yielded' =
       Append(gen_yielded, find_partitions(gen_total, gen_sets, 1)[Len(gen_yielded) + 1])
  /\ UNCHANGED <<inputVars, pc, callVars, aggregatorVars, locationVars, paramVars, bestVars,
                 loopVars, branchVars, explored, pruned, search_log, gen_total, gen_sets>>

\* the generator is exhausted
Exhausted ==
  /\ pc = "generator"
  /\ Len(gen_yielded) = Len(find_partitions(gen_total, gen_sets, 1))
  /\ pc' = "exhausted"
  /\ UNCHANGED <<inputVars, callVars, aggregatorVars, locationVars, paramVars, bestVars,
                 loopVars, branchVars, explored, pruned, search_log, genVars>>

NextPartitions == NextTuple \/ Exhausted

SpecPartitions == InitPartitions /\ [][NextPartitions]_vars

\* ================================================================ claims
Returned == pc = "done"
Locations == {all_listings[i].location_id : i \in 1..Len(all_listings)}
FirstOccurrence(loc) ==
  CHOOSE i \in 1..Len(all_listings) :
    /\ all_listings[i].location_id = loc
    /\ \A j \in 1..(i - 1) : all_listings[j].location_id # loc
ResultLocations == {overall_results[r].location_id : r \in 1..Len(overall_results)}

RECURSIVE SeqSum(_)
SeqSum(s) == IF s = <<>> THEN 0 ELSE Head(s) + SeqSum(Tail(s))

\* every way to write n as an ordered sum of positive parts
RECURSIVE Compositions(_)
Compositions(n) ==
  IF n = 0 THEN {<<>>}
  ELSE UNION {{<<k>> \o c : c \in Compositions(n - k)} : k \in 1..n}

\* the cheapest listing of the pool that fits the sub-group, the earliest of equals
CheapestFit(pool, len, size) ==
  LET fit == {i \in 1..Len(pool) : Fits(pool[i], len, size)}
  IN  CHOOSE i \in fit : \A j \in fit :
        \/ pool[i].price_in_cents < pool[j].price_in_cents
        \/ (pool[i].price_in_cents = pool[j].price_in_cents /\ i <= j)

Without(pool, k) ==
  [i \in 1..(Len(pool) - 1) |-> IF i < k THEN pool[i] ELSE pool[i + 1]]

\* the cost of an ordering when each sub-group in turn takes its cheapest fit,
\* -1 when some sub-group finds none
RECURSIVE GreedyCost(_, _, _)
GreedyCost(ordering, pool, len) ==
  IF ordering = <<>> THEN 0
  ELSE IF \A i \in 1..Len(pool) : ~Fits(pool[i], len, Head(ordering)) THEN -1
  ELSE LET k == CheapestFit(pool, len, Head(ordering))
           rest == GreedyCost(Tail(ordering), Without(pool, k), len)
       IN  IF rest = -1 THEN -1 ELSE pool[k].price_in_cents + rest

FeasibleCosts(n, len, pool) ==
  {GreedyCost(c, pool, len) : c \in Compositions(n)} \ {-1}

MinOf(S) == CHOOSE x \in S : \A y \in S : x <= y

\* ---- C1
\* C1 as stated: a call with zero vehicle groups, or with zero listings, returns
\* an empty result sequence.
C1_EmptyInputGivesEmptyResult ==
  (Returned /\ (vehicle_request = <<>> \/ all_listings = <<>>)) => overall_results = <<>>

\* C1, amended: with zero listings the call returns an empty sequence; with zero
\* vehicle groups it returns one result per location of the catalog, in order of
\* first occurrence, each with total price 0 and no listing ids.
C1_EmptyInput ==
  Returned =>
    /\ all_listings = <<>> => overall_results = <<>>
    /\ vehicle_request = <<>> =>
         /\ ResultLocations = Locations
         /\ Len(overall_results) = Cardinality(Locations)
         /\ \A r \in 1..Len(overall_results) :
              /\ overall_results[r].total_price_in_cents = 0
              /\ overall_results[r].listing_ids = <<>>
         /\ \A r, q \in 1..Len(overall_results) :
              r < q => FirstOccurrence(overall_results[r].location_id)
                         < FirstOccurrence(overall_results[q].location_id)

C1_Witness ==
  /\ Returned /\ vehicle_request = <<>>
  /\ Len(all_listings) = MaxListings
  /\ Len(overall_results) = 2

\* ---- C2
\* C2: the returned sequence is ascending in total price, and results of equal
\* total price are in the order in which their locations first occur in the catalog.
C2_AscendingStable ==
  Returned =>
    \A r, q \in 1..Len(overall_results) :
      r < q =>
        /\ overall_results[r].total_price_in_cents <= overall_results[q].total_price_in_cents
        /\ overall_results[r].total_price_in_cents = overall_results[q].total_price_in_cents
             => FirstOccurrence(overall_results[r].location_id)
                  < FirstOccurrence(overall_results[q].location_id)

C2_Witness ==
  /\ Returned /\ Len(overall_results) = 2
  /\ overall_results[1].total_price_in_cents = overall_results[2].total_price_in_cents
  /\ overall_results[1].total_price_in_cents > 0
  /\ Len(overall_results[1].listing_ids) = 2

\* ---- C3
LogOf(loc) == LET Test(e) == e.location_id = loc IN SelectSeq(search_log, Test)
Demand(group) == group.quantity * group.length
Count(s, x) == Cardinality({i \in 1..Len(s) : s[i] = x})

\* C3: a location is in the output iff Group Search, run on the vehicle groups in
\* descending quantity x length order against the location's shrinking pool,
\* returned an arrangement for every vehicle group; Group Search returns one
\* exactly when some ordering of some partition can be placed.
C3_FeasibleLocationsOnly ==
  Returned =>
    /\ ResultLocations \subseteq Locations
    /\ \A loc \in Locations :
         LET log == LogOf(loc)
             n == Len(log)
         IN  /\ loc \in ResultLocations <=>
                  (n = Len(vehicle_request) /\ \A e \in 1..n : log[e].found)
             /\ \A e \in 1..(n - 1) :
                  /\ log[e].found
                  /\ Demand(log[e].group) >= Demand(log[e + 1].group)
                  /\ Len(log[e + 1].pool) < Len(log[e].pool)
                  /\ \A i \in 1..Len(log[e + 1].pool) :
                       \E j \in 1..Len(log[e].pool) : log[e].pool[j] = log[e + 1].pool[i]
             /\ \A e \in 1..n :
                  /\ Count([i \in 1..n |-> log[i].group], log[e].group)
                       <= Count(vehicle_request, log[e].group)
                  /\ log[e].found <=>
                       FeasibleCosts(log[e].group.quantity, log[e].group.length,
                                     log[e].pool) # {}
             /\ n > 0 =>
                  /\ Len(log[1].pool) = Count([i \in 1..Len(all_listings) |->
                                                 all_listings[i].location_id], loc)
                  /\ \A i \in 1..Len(log[1].pool) : log[1].pool[i].location_id = loc

C3_Witness ==
  /\ Returned /\ Cardinality(Locations) = 2
  /\ Len(vehicle_request) = 2
  /\ Len(overall_results) = 1
  /\ \E e \in 1..Len(search_log) : e > 1 /\ ~search_log[e].found /\ search_log[e - 1].found
                                    /\ search_log[e].location_id = search_log[e - 1].location_id

\* ---- C4
\* C4: every listing id of a result belongs to a listing of the result's location.
C4_LocationLocal ==
  \A r \in 1..Len(overall_results) :
    \A k \in 1..Len(overall_results[r].listing_ids) :
      \E i \in 1..Len(all_listings) :
        /\ all_listings[i].id = overall_results[r].listing_ids[k]
        /\ all_listings[i].location_id = overall_results[r].location_id

C4_Witness ==
  /\ Returned /\ Len(overall_results) = 2
  /\ overall_results[1].listing_ids # <<>>
  /\ overall_results[2].listing_ids # <<>>

\* ---- C10
\* C10: no result names a listing id twice, neither for two sub-groups of one
\* vehicle group nor for two vehicle groups.
C10_NoListingTwice ==
  \A r \in 1..Len(overall_results) :
    \A k, m \in 1..Len(overall_results[r].listing_ids) :
      k # m => overall_results[r].listing_ids[k] # overall_results[r].listing_ids[m]

C10_Witness ==
  /\ Returned
  /\ \E r \in 1..Len(overall_results) : Len(overall_results[r].listing_ids) = 3
  /\ Len(vehicle_request) = 2

\* ---- C7
\* C7: the second call with the same inputs returns what the first returned, and
\* no step of either call changes the vehicle request or the listing sequence.
C7_Idempotent ==
  [][/\ (pc' = "done" /\ call' = 2) => first_result' = Some(overall_results')
     /\ vehicle_request' = vehicle_request
     /\ all_listings' = all_listings]_vars

C7_Witness ==
  /\ Returned /\ call = 2
  /\ Len(overall_results) >= 1
  /\ first_result = Some(overall_results)
  /\ Len(overall_results[1].listing_ids) >= 2
  /\ \E p \in DOMAIN set_order : Len(set_order[p]) > 1

\* ---- C5
\* the partitions of n into k positive parts, as non-decreasing tuples
ReferencePartitions(n, k) ==
  IF k > n THEN {}
  ELSE {s \in [1..k -> 1..(n - k + 1)] :
          /\ SeqSum(s) = n
          /\ \A i \in 1..(k - 1) : s[i] <= s[i + 1]}

\* the standard count: p(n, k) = p(n - 1, k - 1) + p(n - k, k)
RECURSIVE PartitionCount(_, _)
PartitionCount(n, k) ==
  IF n = 0 /\ k = 0 THEN 1
  ELSE IF n <= 0 \/ k <= 0 THEN 0
  ELSE PartitionCount(n - 1, k - 1) + PartitionCount(n - k, k)

\* C5: find_partitions(n, k) yields only tuples of length k, non-decreasing, of
\* positive parts summing to n, yields none twice, and by the time it is
\* exhausted has yielded every such tuple, as many as the partition count p(n, k).
C5_ExactlyThePartitions ==
  /\ \A i \in 1..Len(gen_yielded) :
       /\ Len(gen_yielded[i]) = gen_sets
       /\ SeqSum(gen_yielded[i]) = gen_total
       /\ \A j \in 1..gen_sets : gen_yielded[i][j] >= 1
       /\ \A j \in 1..(gen_sets - 1) : gen_yielded[i][j] <= gen_yielded[i][j + 1]
       /\ \A m \in 1..Len(gen_yielded) : m # i => gen_yielded[m] # gen_yielded[i]
  /\ pc = "exhausted" =>
       /\ {gen_yielded[i] : i \in 1..Len(gen_yielded)}
            = ReferencePartitions(gen_total, gen_sets)
       /\ Len(gen_yielded) = PartitionCount(gen_total, gen_sets)

C5_Witness ==
  /\ pc = "exhausted"
  /\ gen_total = MaxTotal /\ gen_sets = 3
  /\ Len(gen_yielded) >= 4

\* ---- C6
InSearch == pc \in {"ordering", "group", "ordering_end", "search_return"}

\* C6: within one call of find_cheapest_for_location the best price never goes
\* up, and at the return the arrangement returned costs no more than any
\* ordering that was completed and feasible.
C6_BestPriceNeverRises ==
  [][/\ InSearch => cheapest_price_for_this_loc' <= cheapest_price_for_this_loc
     /\ (pc' = "search_return" /\ best_arrangement_for_this_loc' # None) =>
          /\ best_arrangement_for_this_loc'[1].total_price_in_cents
               = cheapest_price_for_this_loc'
          /\ \A p \in explored' :
               best_arrangement_for_this_loc'[1].total_price_in_cents <= p]_vars

C6_Witness ==
  /\ pc = "search_return"
  /\ best_arrangement_for_this_loc # None
  /\ Cardinality(explored) >= 2
  /\ \E p \in explored : p > best_arrangement_for_this_loc[1].total_price_in_cents
  /\ pruned >= 1

\* ---- C8
\* C8: called with price_to_beat = +infinity, Group Search returns None exactly
\* when no ordering of any partition can be placed greedily, and otherwise an
\* arrangement whose price is the least greedy cost over all those orderings.
C8_PruningKeepsTheMinimum ==
  (pc = "search_return" /\ price_to_beat = Infinity) =>
    \E costs \in {FeasibleCosts(numCars, carLength, listings_at_location)} :
      IF costs = {} THEN best_arrangement_for_this_loc = None
      ELSE /\ best_arrangement_for_this_loc # None
           /\ best_arrangement_for_this_loc[1].total_price_in_cents = MinOf(costs)

C8_Witness ==
  /\ pc = "search_return" /\ price_to_beat = Infinity
  /\ numCars = MaxCars
  /\ pruned >= 2
  /\ Cardinality(explored) >= 2
  /\ best_arrangement_for_this_loc # None
  /\ Len(best_arrangement_for_this_loc[1].split_of_cars) = 2

\* ---- C9
\* C9: every ordering starts on a pool equal to the pool passed in, whatever the
\* orderings before it removed, and no step of the search changes the pool
\* passed in.
C9_BranchLocalPool ==
  [][/\ pc' = "group" /\ g_i' = 1 => temp_listings' = listings_at_location'
     /\ listings_at_location' = listings_at_location]_vars

C9_Witness ==
  /\ pc = "group" /\ g_i = 1
  /\ part_i > 1
  /\ explored # {}
  /\ Len(listings_at_location) = MaxPool
  /\ temp_listings = listings_at_location

====
